---- MODULE Spec2Model ----
(***************************************************************************)
(* Model of detection_src/input_pipeline/pipeline.py: the Pipeline class,  *)
(* its constructor (record counting and the tf.data stage chain), the      *)
(* per-record transform _parse_and_preprocess, and the initializable       *)
(* iterator returned by get_init_op_and_next_el.                           *)
(*                                                                         *)
(* Numbers.  Box coordinates are integers in units of 1/12 (One = 1.0).    *)
(* Pixel values after convert_image_dtype are integers in units of         *)
(* 1/(255*4) (PixOne = 1.0), so that the bilinear weights 0, 1/2 and 1 of  *)
(* the modelled resizes stay exact.                                        *)
(***************************************************************************)
EXTENDS Integers, Sequences, FiniteSets, TLC

(***************************************************************************)
(* Bounds of the model.                                                    *)
(***************************************************************************)
\* Longest list of file names handed to the constructor.
MaxFiles == 2
\* Largest batch_size handed to the constructor.
MaxBatch == 2
\* Number of times the consumer runs the initializer before the model stops.
MaxEpochs == 2

(***************************************************************************)
(* Scalars                                                                 *)
(***************************************************************************)
\* 1.0 for box coordinates (unit 1/12).
One == 12
\* 1.0 for float pixels: 255 uint8 levels of 4 sub-steps each.
PixOne == 255 * 4

Min(a, b) == IF a < b THEN a ELSE b
Max(a, b) == IF a > b THEN a ELSE b

\* tf.clip_by_value on one scalar.
ClipByValue(v, lo, hi) == Max(lo, Min(hi, v))

RECURSIVE SumSeq(_)
SumSeq(s) == IF s = <<>> THEN 0 ELSE s[1] + SumSeq(Tail(s))

RECURSIVE MaxSeq(_)
MaxSeq(s) == IF s = <<>> THEN 0 ELSE Max(s[1], MaxSeq(Tail(s)))

RECURSIVE Flatten(_)
Flatten(ss) == IF ss = <<>> THEN <<>> ELSE ss[1] \o Flatten(Tail(ss))

IsPrefix(s, t) == Len(s) <= Len(t) /\ SubSeq(t, 1, Len(s)) = s

(***************************************************************************)
(* Serialized records and the files that hold them.                        *)
(* A record has the seven features of the schema (lines 71-79); the image  *)
(* feature is given decoded, as rows of RGB uint8 triples.                 *)
(***************************************************************************)
Px(v) == <<v, v, v>>

RecBox ==
  [filename |-> "one_box.jpg", img_shape |-> <<2, 2, 3>>,
   image |-> << <<Px(0), Px(255)>>, <<Px(128), <<10, 200, 64>> >> >>,
   ymin |-> <<3>>, xmin |-> <<3>>, ymax |-> <<9>>, xmax |-> <<9>>]

\* coordinates below 0 and above 1
RecWild ==
  [filename |-> "wild.jpg", img_shape |-> <<1, 3, 3>>,
   image |-> << <<Px(255), Px(0), Px(64)>> >>,
   ymin |-> <<-3, 6>>, xmin |-> <<0, 6>>, ymax |-> <<6, 15>>, xmax |-> <<12, 18>>]

\* no boxes at all
RecNone ==
  [filename |-> "no_box.jpg", img_shape |-> <<3, 1, 3>>,
   image |-> << <<Px(0)>>, <<Px(255)>>, <<Px(100)>> >>,
   ymin |-> <<>>, xmin |-> <<>>, ymax |-> <<>>, xmax |-> <<>>]

\* ymin has 2 values, xmin has 3
RecBad ==
  [filename |-> "bad.jpg", img_shape |-> <<1, 1, 3>>,
   image |-> << <<Px(7)>> >>,
   ymin |-> <<0, 3>>, xmin |-> <<0, 3, 6>>, ymax |-> <<6, 9>>, xmax |-> <<6, 9>>]

\* The files on disk: name -> the records it holds, in file order.
Disk ==
  [a |-> <<RecNone, RecWild>>,
   b |-> <<RecNone>>,
   bad |-> <<RecBox, RecBad>>,
   empty |-> <<>>]

FileNames == DOMAIN Disk

(***************************************************************************)
(* _parse_and_preprocess                                                   *)
(***************************************************************************)
\* Variant: the lengths are not compared (the features are zipped).
StackUnchecked(rec) == TRUE

\* tf.stack(axis=1) of the four coordinate features needs equal lengths;
\* otherwise the op raises InvalidArgumentError when the record is processed.
StackOk(rec) ==
  /\ Len(rec.xmin) = Len(rec.ymin)
  /\ Len(rec.ymax) = Len(rec.ymin)
  /\ Len(rec.xmax) = Len(rec.ymin)

\* tf.stack([ymin, xmin, ymax, xmax], axis=1): one row per box.
Stack(rec) ==
  [i \in 1..Len(rec.ymin) |-> <<rec.ymin[i], rec.xmin[i], rec.ymax[i], rec.xmax[i]>>]

\* Variant: only the upper bound is applied.
ClipBoxesAbove(boxes) ==
  [i \in 1..Len(boxes) |-> [j \in 1..4 |-> Min(boxes[i][j], One)]]

\* tf.clip_by_value(boxes, 0.0, 1.0)
ClipBoxes(boxes) ==
  [i \in 1..Len(boxes) |-> [j \in 1..4 |-> ClipByValue(boxes[i][j], 0, One)]]

\* tf.image.convert_image_dtype(uint8 -> float32): v / 255.
ConvertImageDtype(img) ==
  [r \in 1..Len(img) |->
     [c \in 1..Len(img[r]) |-> [k \in 1..3 |-> img[r][c][k] * (PixOne \div 255)]]]

\* The crop windows the augmentation may sample (ymin, xmin, ymax, xmax):
\* aspect ratio 1 and area 9/16, inside the policy ranges of lines 99-101.
CropWindows == << <<0, 0, 9, 9>>, <<3, 3, 12, 12>> >>

\* Intersection area of a box with a window, and the box's own area.
InterArea(b, w) ==
  Max(0, Min(b[3], w[3]) - Max(b[1], w[1])) * Max(0, Min(b[4], w[4]) - Max(b[2], w[2]))
BoxArea(b) == (b[3] - b[1]) * (b[4] - b[2])

\* overlap_thresh = 0.4: a box stays when at least 0.4 of it is in the window.
KeptByCrop(b, w) == BoxArea(b) > 0 /\ 10 * InterArea(b, w) >= 4 * BoxArea(b)

\* A coordinate re-expressed relative to the window side [lo, hi), clipped.
Reframe(v, lo, hi) == ClipByValue(((v - lo) * One) \div (hi - lo), 0, One)

\* random_image_crop with the draw made explicit: draw = 0 is the branch that
\* leaves the example alone, otherwise draw is the index of the sampled window.
random_image_crop(image, boxes, draw) ==
  IF draw = 0 THEN [image |-> image, boxes |-> boxes]
  ELSE LET win == CropWindows[draw]
           h == Len(image)
           w == Len(image[1])
           r0 == (win[1] * h) \div One
           c0 == (win[2] * w) \div One
           ch == Max(1, ((win[3] - win[1]) * h) \div One)
           cw == Max(1, ((win[4] - win[2]) * w) \div One)
           kept == SelectSeq(boxes, LAMBDA b : KeptByCrop(b, win))
       IN [image |-> [r \in 1..ch |-> [c \in 1..cw |-> image[r0 + r][c0 + c]]],
           boxes |-> [i \in 1..Len(kept) |->
                        <<Reframe(kept[i][1], win[1], win[3]),
                          Reframe(kept[i][2], win[2], win[4]),
                          Reframe(kept[i][3], win[1], win[3]),
                          Reframe(kept[i][4], win[2], win[4])>>]]

\* tf.image.resize_images(image, [size, size]): bilinear, align_corners=False.
\* Output index o (1-based) reads source position (o-1)*n/size; SrcTwice is
\* twice that position, so its parity is the interpolation weight (0 or 1/2).
SrcTwice(n, o, size) == ((o - 1) * n * 2) \div size
SrcLo(n, o, size) == SrcTwice(n, o, size) \div 2 + 1
SrcHi(n, o, size) == Min(SrcLo(n, o, size) + 1, n)
SrcFr(n, o, size) == SrcTwice(n, o, size) % 2
\* Twice the linear interpolation of a and b at weight fr/2.
Lerp2(a, b, fr) == (2 - fr) * a + fr * b

resize_images(image, size) ==
  LET h == Len(image)
      w == Len(image[1])
  IN [r \in 1..size |-> [c \in 1..size |-> [k \in 1..3 |->
        LET ly == SrcLo(h, r, size)
            hy == SrcHi(h, r, size)
            fy == SrcFr(h, r, size)
            lx == SrcLo(w, c, size)
            hx == SrcHi(w, c, size)
            fx == SrcFr(w, c, size)
        IN Lerp2(Lerp2(image[ly][lx][k], image[ly][hx][k], fx),
                 Lerp2(image[hy][lx][k], image[hy][hx][k], fx), fy) \div 4]]]

\* tf.clip_by_value(image, 0.0, 1.0)
ClipImage(image) ==
  [r \in 1..Len(image) |-> [c \in 1..Len(image[r]) |->
     [k \in 1..3 |-> ClipByValue(image[r][c][k], 0, PixOne)]]]

\* Variant: the shift by -1 is missing.
RemapNoShift(image) ==
  [r \in 1..Len(image) |-> [c \in 1..Len(image[r]) |->
     [k \in 1..3 |-> image[r][c][k] * 2]]]

\* image * 2.0 - 1.0
Remap(image) ==
  [r \in 1..Len(image) |-> [c \in 1..Len(image[r]) |->
     [k \in 1..3 |-> image[r][c][k] * 2 - PixOne]]]

\* The whole transform of one record.  training is self.is_training, size is
\* self.fine_size, draw the draw of the crop augmentation.  A record whose
\* coordinate features cannot be stacked yields an error, not an example.
parse_and_preprocess(rec, training, size, draw) ==
  IF ~StackOk(rec) THEN [ok |-> FALSE, filename |-> rec.filename]
  ELSE LET image0 == ConvertImageDtype(rec.image)
           boxes0 == ClipBoxes(Stack(rec))
           aug == IF training THEN random_image_crop(image0, boxes0, draw)
                  ELSE [image |-> image0, boxes |-> boxes0]
           image1 == resize_images(aug.image, size)
       IN [ok |-> TRUE,
           image |-> Remap(ClipImage(image1)),
           img_shape |-> rec.img_shape,
           boxes |-> aug.boxes,
           num_boxes |-> Len(aug.boxes),
           filename |-> rec.filename]

\* The draws random_image_crop can make for a record: none in evaluation;
\* in training 0 (probability 0.1, or no box to crop around) or a window.
CropDraws(rec, training) ==
  IF training /\ StackOk(rec) /\ Len(rec.ymin) > 0
  THEN 0..Len(CropWindows)
  ELSE {0}

(***************************************************************************)
(* padded_batch                                                            *)
(***************************************************************************)
ZeroRow == <<0, 0, 0, 0>>

\* Variant: the box dimension of the first example is used for all.
PaddedLenFirst(examples) == Len(examples[1].boxes)

\* padded_shapes [None, 4]: the box dimension is padded to the longest in the group.
PaddedLen(examples) == MaxSeq([i \in 1..Len(examples) |-> Len(examples[i].boxes)])

PadBoxes(boxes, n) ==
  [j \in 1..n |-> IF j <= Len(boxes) THEN boxes[j] ELSE ZeroRow]

\* The batch tensors built from a group of transformed examples.
padded_batch(examples) ==
  [images |-> [i \in 1..Len(examples) |-> examples[i].image],
   img_shapes |-> [i \in 1..Len(examples) |-> examples[i].img_shape],
   boxes |-> [i \in 1..Len(examples) |-> PadBoxes(examples[i].boxes, PaddedLen(examples))],
   num_boxes |-> [i \in 1..Len(examples) |-> examples[i].num_boxes],
   filenames |-> [i \in 1..Len(examples) |-> examples[i].filename]]

(***************************************************************************)
(* The stage chain built by the constructor                                *)
(***************************************************************************)
\* get_num_samples: the number of records tf_record_iterator yields.
get_num_samples(filename) == Len(Disk[filename])

\* Variant: a zero count passes.
CountOkLax(count) == count >= 0

\* The assertion on each file's count.
CountOk(count) == count > 0

\* The counting loop: the running total, or the failed assertion.
RECURSIVE CountLoop(_, _)
CountLoop(files, total) ==
  IF files = <<>> THEN [ok |-> TRUE, num_examples |-> total]
  ELSE IF ~CountOk(get_num_samples(Head(files)))
       THEN [ok |-> FALSE, num_examples |-> total]
       ELSE CountLoop(Tail(files), total + get_num_samples(Head(files)))

\* dataset.shuffle(buffer_size): the buffer is filled from the input up to
\* buffer_size, then a random element of it is emitted and replaced.
RECURSIVE ShuffleFrom(_, _, _)
ShuffleFrom(buf, rest, size) ==
  IF Cardinality(buf) < size /\ rest # <<>>
  THEN ShuffleFrom(buf \cup {Head(rest)}, Tail(rest), size)
  ELSE IF buf = {} THEN { <<>> }
  ELSE UNION { { <<e>> \o t : t \in ShuffleFrom(buf \ {e}, rest, size) } : e \in buf }

\* The orders in which an epoch can visit the shards 1..n.
ShardOrders(shuf, n) ==
  IF shuf THEN ShuffleFrom({}, [k \in 1..n |-> k], n)
  ELSE { [k \in 1..n |-> k] }

\* flat_map(TFRecordDataset): the records of each shard in file order, shard
\* after shard.  A record is named by its shard and its index in the shard.
FlatMap(files, order) ==
  Flatten([k \in 1..Len(order) |->
             [i \in 1..get_num_samples(files[order[k]]) |-> <<order[k], i>>]])

\* Variant: the shuffle is applied to the records after flat_map.
ExampleShuffled(files, shuf, n) ==
  IF shuf
  THEN LET all == FlatMap(files, [k \in 1..n |-> k])
       IN { [i \in 1..Len(all) |-> all[o[i]]] :
              o \in ShuffleFrom({}, [k \in 1..Len(all) |-> k], Len(all)) }
  ELSE { FlatMap(files, [k \in 1..n |-> k]) }

\* The record streams an epoch can read: shuffle on the file names when asked
\* for, then flat_map.
EpochStreams(files, shuf, n) ==
  { FlatMap(files, o) : o \in ShardOrders(shuf, n) }

\* Variant: the buffer takes one record more.
ReadAheadOneMore(bs) == bs * 2 + 1

\* prefetch(buffer_size=batch_size * 2)
ReadAheadCapacity(bs) == bs * 2

\* prefetch(buffer_size=1)
BatchBufCapacity == 1

\* num_parallel_calls of the map stage.
NUM_THREADS == 2

\* Variant: the remainder is kept.
keep_remainder == FALSE

\* padded_batch(..., drop_remainder=True)
drop_remainder == TRUE

\* Variant: any finished invocation is handed on, in completion order.
DeliverableAnyDone(window) == { i \in 1..Len(window) : window[i].done }

\* The positions of the map stage's window whose result the next stage may
\* take: results are handed on in input order, so only a finished head.
Deliverable(window) ==
  IF window # <<>> /\ window[1].done THEN {1} ELSE {}

\* Variant: the buffer survives the initializer.
Kept(buf) == buf

\* What running the initializer leaves of a buffer of the previous iterator.
Cleared(buf) == <<>>

RemoveAt(s, i) == SubSeq(s, 1, i - 1) \o SubSeq(s, i + 1, Len(s))

(***************************************************************************)
(* State                                                                   *)
(***************************************************************************)
VARIABLES
  filenames,     \* constructor argument: the list of file names
  is_training,   \* constructor argument
  batch_size,    \* constructor argument
  shuffle,       \* constructor argument
  pc,            \* "start", "constructed", or the assertion that failed
  num_examples,  \* self.num_examples
  num_shards,    \* self.num_shards
  epoch,         \* how many times the initializer has run (0: never)
  stream,        \* the record stream of the current epoch
  cursor,        \* records read from the flattened stream so far
  readahead,     \* the buffer of prefetch(batch_size * 2)
  calls,         \* the map stage's window of invocations, in input order
  group,         \* the examples padded_batch has gathered for the next batch
  batchbuf,      \* the buffer of prefetch(1)
  batchDone,     \* padded_batch has reached the end of its input
  dropped,       \* examples discarded by drop_remainder at the end
  pulled,        \* history: the records padded_batch has taken, in order
  result,        \* outcome of the last get_next: none, batch, OutOfRange, Error
  emitted,       \* history: the batches get_next has returned this epoch
  prev           \* history: emitted and result of the previous epoch of an
                 \* evaluation pipeline without shuffle, as the initializer found them

args == <<filenames, is_training, batch_size, shuffle>>
object == <<pc, num_examples, num_shards>>
stages == <<stream, cursor, readahead, calls, group, batchbuf, batchDone, dropped, pulled>>
stages_but_batchbuf == <<stream, cursor, readahead, calls, group, batchDone, dropped, pulled>>
consumer == <<epoch, result, emitted, prev>>
vars == <<args, object, stages, consumer>>

fine_size == 2

\* The serialized record an element names.
RecordOf(el) == Disk[filenames[el.rec[1]]][el.rec[2]]

\* The result slot of an invocation that has not finished.
Pending == [ok |-> FALSE, filename |-> "pending"]

\* The results of a group of finished invocations.
Outs(items) == [i \in 1..Len(items) |-> items[i].out]

\* The lists of file names tried: up to MaxFiles different files of the disk.
FileLists ==
  { l \in UNION { [1..n -> FileNames] : n \in 0..MaxFiles } :
      \A i, j \in DOMAIN l : l[i] = l[j] => i = j }

NoEpoch == [valid |-> FALSE, emitted |-> <<>>, result |-> "none"]

Init ==
  /\ filenames \in FileLists
  /\ is_training \in BOOLEAN
  /\ batch_size \in 1..MaxBatch
  /\ shuffle \in BOOLEAN
  /\ pc = "start"
  /\ num_examples = 0
  /\ num_shards = 0
  /\ epoch = 0
  /\ stream = <<>>
  /\ cursor = 0
  /\ readahead = <<>>
  /\ calls = <<>>
  /\ group = <<>>
  /\ batchbuf = <<>>
  /\ batchDone = FALSE
  /\ dropped = 0
  /\ pulled = <<>>
  /\ result = "none"
  /\ emitted = <<>>
  /\ prev = NoEpoch

(***************************************************************************)
(* Pipeline.__init__                                                       *)
(***************************************************************************)
Construct ==
  /\ pc = "start"
  /\ LET counted == CountLoop(filenames, 0)
     IN IF ~counted.ok
        THEN /\ pc' = "AssertionError_file"
             /\ UNCHANGED <<num_examples, num_shards>>
        ELSE IF ~(counted.num_examples > 0)
        THEN /\ pc' = "AssertionError_total"
             /\ num_examples' = counted.num_examples
             /\ UNCHANGED num_shards
        ELSE /\ pc' = "constructed"
             /\ num_examples' = counted.num_examples
             /\ num_shards' = Len(filenames)
  /\ UNCHANGED <<args, stages, consumer>>

(***************************************************************************)
(* The iterator: init_op and next_el, and the stages that feed next_el     *)
(***************************************************************************)
\* session.run(init_op): a fresh iterator over the dataset.
Initialize ==
  /\ pc = "constructed"
  /\ epoch < MaxEpochs
  /\ epoch' = epoch + 1
  /\ stream' \in EpochStreams(filenames, shuffle, num_shards)
  /\ cursor' = 0
  /\ readahead' = Cleared(readahead)
  /\ calls' = Cleared(calls)
  /\ group' = Cleared(group)
  /\ batchbuf' = Cleared(batchbuf)
  /\ batchDone' = FALSE
  /\ dropped' = 0
  /\ pulled' = <<>>
  /\ result' = "none"
  /\ emitted' = <<>>
  /\ prev' = IF epoch > 0 /\ ~is_training /\ ~shuffle
             THEN [valid |-> TRUE, emitted |-> emitted, result |-> result]
             ELSE prev
  /\ UNCHANGED <<args, object>>

\* The first prefetch's thread: reads the next record when its buffer has room.
ReadAhead ==
  /\ epoch > 0
  /\ Len(readahead) < ReadAheadCapacity(batch_size)
  /\ cursor < Len(stream)
  /\ readahead' = Append(readahead, [rec |-> stream[cursor + 1], ep |-> epoch])
  /\ cursor' = cursor + 1
  /\ UNCHANGED <<args, object, consumer, stream, calls, group, batchbuf,
                 batchDone, dropped, pulled>>

\* The map stage starts an invocation on the next buffered record.
MapStart ==
  /\ Len(calls) < NUM_THREADS
  /\ readahead # <<>>
  /\ calls' = Append(calls, [rec |-> Head(readahead).rec, ep |-> Head(readahead).ep,
                             done |-> FALSE, draw |-> 0, out |-> Pending])
  /\ readahead' = Tail(readahead)
  /\ UNCHANGED <<args, object, consumer, stream, cursor, group, batchbuf,
                 batchDone, dropped, pulled>>

\* A worker finishes an invocation of _parse_and_preprocess.
MapFinish ==
  \E i \in 1..Len(calls) :
    /\ ~calls[i].done
    /\ \E d \in CropDraws(RecordOf(calls[i]), is_training) :
         calls' = [calls EXCEPT ![i] =
                     [@ EXCEPT !.done = TRUE, !.draw = d,
                               !.out = parse_and_preprocess(RecordOf(calls[i]), is_training,
                                                            fine_size, d)]]
    /\ UNCHANGED <<args, object, consumer, stream, cursor, readahead, group,
                   batchbuf, batchDone, dropped, pulled>>

\* The second prefetch's thread, when its buffer has room, drives padded_batch:
\* it takes the next result; an error discards the gathered group and is
\* buffered in its place, a full group is buffered as a batch.
BatchTake ==
  /\ Len(batchbuf) < BatchBufCapacity
  /\ ~batchDone
  /\ \E i \in Deliverable(calls) :
       LET item == calls[i]
       IN /\ calls' = RemoveAt(calls, i)
          /\ pulled' = Append(pulled, item.rec)
          /\ IF ~item.out.ok
             THEN /\ group' = <<>>
                  /\ batchbuf' = Append(batchbuf, [kind |-> "error", items |-> <<>>])
             ELSE IF Len(group) + 1 = batch_size
             THEN /\ group' = <<>>
                  /\ batchbuf' = Append(batchbuf,
                                        [kind |-> "batch", items |-> Append(group, item),
                                         tensors |-> padded_batch(Outs(Append(group, item)))])
             ELSE /\ group' = Append(group, item)
                  /\ UNCHANGED batchbuf
  /\ UNCHANGED <<args, object, consumer, stream, cursor, readahead, batchDone, dropped>>

\* padded_batch finds its input exhausted: a gathered group smaller than
\* batch_size is discarded under drop_remainder, emitted otherwise.
BatchEnd ==
  /\ epoch > 0
  /\ Len(batchbuf) < BatchBufCapacity
  /\ ~batchDone
  /\ calls = <<>>
  /\ readahead = <<>>
  /\ cursor = Len(stream)
  /\ batchDone' = TRUE
  /\ group' = <<>>
  /\ IF drop_remainder \/ group = <<>>
     THEN /\ dropped' = Len(group)
          /\ UNCHANGED batchbuf
     ELSE /\ dropped' = 0
          /\ batchbuf' = Append(batchbuf, [kind |-> "batch", items |-> group,
                                           tensors |-> padded_batch(Outs(group))])
  /\ UNCHANGED <<args, object, consumer, stream, cursor, readahead, calls, pulled>>

\* session.run(next_el): returns the buffered batch, raises the buffered
\* error, or raises OutOfRangeError at the end; waits while there is neither.
\* An exception ends the consumer's epoch: it calls next_el again only after
\* running init_op.
GetNext ==
  /\ epoch > 0
  /\ result \notin {"OutOfRange", "Error"}
  /\ IF batchbuf # <<>>
     THEN /\ batchbuf' = Tail(batchbuf)
          /\ IF Head(batchbuf).kind = "batch"
             THEN /\ emitted' = Append(emitted, Head(batchbuf))
                  /\ result' = "batch"
             ELSE /\ result' = "Error"
                  /\ UNCHANGED emitted
     ELSE /\ batchDone
          /\ result' = "OutOfRange"
          /\ UNCHANGED <<emitted, batchbuf>>
  /\ UNCHANGED <<args, object, stages_but_batchbuf, epoch, prev>>

Next ==
  \/ Construct
  \/ Initialize
  \/ ReadAhead
  \/ MapStart
  \/ MapFinish
  \/ BatchTake
  \/ BatchEnd
  \/ GetNext

Spec == Init /\ [][Next]_vars

(***************************************************************************)
(* Properties                                                              *)
(***************************************************************************)
\* The records a file list holds per file, read off the disk.
RecordCounts == [k \in 1..Len(filenames) |-> Len(Disk[filenames[k]])]

\* The batches get_next has returned or that wait in the last buffer.
BufferedBatches == SelectSeq(batchbuf, LAMBDA e : e.kind = "batch")
BatchesOut == emitted \o BufferedBatches

\* The names of the records of a sequence of invocations.
Recs(items) == [i \in 1..Len(items) |-> items[i].rec]

\* The records of the batches get_next has returned, in order.
EmittedRecs == Flatten([i \in 1..Len(emitted) |-> Recs(emitted[i].items)])

\* A record whose coordinate features differ in length.
MismatchedLengths(rec) ==
  Cardinality({Len(rec.ymin), Len(rec.xmin), Len(rec.ymax), Len(rec.xmax)}) > 1

BadAt(recs) == { i \in 1..Len(recs) : MismatchedLengths(Disk[filenames[recs[i][1]]][recs[i][2]]) }

\* C1: a constructed pipeline has num_examples equal to the sum of the
\* per-file record counts, and that sum is positive; once the constructor has
\* run on a list with a zero-record file, or on a list holding no record at
\* all (the empty list), no pipeline is constructed and no iterator exists.
C1_CountsAndRejects ==
  /\ pc = "constructed" =>
       /\ num_examples = SumSeq(RecordCounts)
       /\ num_examples > 0
       /\ num_shards = Len(filenames)
  /\ (pc # "start" /\ ((\E k \in 1..Len(filenames) : RecordCounts[k] = 0)
                       \/ SumSeq(RecordCounts) = 0)) =>
       /\ pc \in {"AssertionError_file", "AssertionError_total"}
       /\ epoch = 0

C1_Witness ==
  /\ pc = "constructed"
  /\ Len(filenames) = 2
  /\ num_examples = 3

\* C2: every batch handed on holds exactly batch_size examples, and when
\* get_next signals the end of the epoch exactly num_examples div batch_size
\* batches were returned and num_examples mod batch_size examples were
\* discarded.
C2_FullBatchesOnly ==
  /\ \A i \in 1..Len(BatchesOut) :
       /\ Len(BatchesOut[i].items) = batch_size
       /\ Len(BatchesOut[i].tensors.filenames) = batch_size
  /\ result = "OutOfRange" =>
       /\ Len(emitted) = num_examples \div batch_size
       /\ dropped = num_examples % batch_size

C2_Witness ==
  /\ result = "OutOfRange"
  /\ batch_size = 2
  /\ Len(emitted) = 1
  /\ dropped = 1

RowsPaddedRight(t, ex, nmax, eval_counts) ==
  \A i \in 1..Len(ex) :
    /\ Len(t.boxes[i]) = nmax
    /\ t.num_boxes[i] = Len(ex[i].boxes)
    /\ ~is_training => t.num_boxes[i] = eval_counts[i]
    /\ t.num_boxes[i] <= nmax
    /\ \A j \in 1..nmax :
         /\ j > t.num_boxes[i] => t.boxes[i][j] = <<0, 0, 0, 0>>
         /\ j <= t.num_boxes[i] => t.boxes[i][j] = ex[i].boxes[j]

BoxesPaddedRight(batch) ==
  RowsPaddedRight(batch.tensors, Outs(batch.items),
                  MaxSeq([i \in 1..Len(batch.items) |-> batch.items[i].out.num_boxes]),
                  [i \in 1..Len(batch.items) |-> Len(RecordOf(batch.items[i]).ymin)])

\* C3: in every batch the box dimension is the largest num_boxes of its
\* examples; an example's rows from its own num_boxes on are zero, the rows
\* before are its own boxes, and its num_boxes entry is its unpadded row
\* count; a batch whose examples have no box at all has box dimension 0.
C3_PaddedBoxes == \A b \in 1..Len(BatchesOut) : BoxesPaddedRight(BatchesOut[b])

C3_Witness ==
  /\ emitted # <<>>
  /\ LET t == emitted[1].tensors
     IN /\ Len(t.num_boxes) = 2
        /\ t.num_boxes[1] = 0
        /\ t.num_boxes[2] = 2
        /\ Len(t.boxes[1]) = 2

\* C4: in an evaluation pipeline without shuffle, an epoch that has ended
\* (by end-of-epoch or by an error) returned the same batches, in the same
\* order, and ended the same way as the epoch before it, if that one ended too.
C4_EvalEpochsIdentical ==
  (~is_training /\ ~shuffle /\ prev.valid /\ prev.result \in {"OutOfRange", "Error"}
     /\ result \in {"OutOfRange", "Error"}) =>
     /\ result = prev.result
     /\ [i \in 1..Len(emitted) |-> Recs(emitted[i].items)]
          = [i \in 1..Len(prev.emitted) |-> Recs(prev.emitted[i].items)]
     /\ [i \in 1..Len(emitted) |-> emitted[i].tensors]
          = [i \in 1..Len(prev.emitted) |-> prev.emitted[i].tensors]

C4_Witness ==
  /\ ~is_training
  /\ ~shuffle
  /\ prev.valid
  /\ prev.result = "OutOfRange"
  /\ result = "OutOfRange"
  /\ Len(emitted) >= 2

\* C5: no batch holds a record with mismatched coordinate lengths, nor does
\* the group being gathered; once padded_batch has taken such a record an
\* error is buffered or has been raised; and when get_next has raised it, the
\* batches returned are exactly the full batches that precede the first such
\* record in the stream.
C5_BadRecordIsFatal ==
  /\ \A i \in 1..Len(BatchesOut) : BadAt(Recs(BatchesOut[i].items)) = {}
  /\ BadAt(Recs(group)) = {}
  /\ BadAt(pulled) # {} =>
       \/ \E i \in 1..Len(batchbuf) : batchbuf[i].kind = "error"
       \/ result = "Error"
  /\ result = "Error" =>
       /\ BadAt(stream) # {}
       /\ LET first == CHOOSE i \in BadAt(stream) : \A j \in BadAt(stream) : i <= j
          IN EmittedRecs
               = SubSeq(stream, 1, batch_size * ((first - 1) \div batch_size))

C5_Witness ==
  /\ result = "Error"
  /\ batch_size = 2
  /\ RecordOf([rec |-> pulled[2]]).ymin = <<0, 3>>
  /\ RecordOf([rec |-> pulled[2]]).xmin = <<0, 3, 6>>
  /\ emitted = <<>>

AllItems ==
  Flatten([i \in 1..Len(BatchesOut) |-> BatchesOut[i].items])
    \o group \o calls \o readahead

\* C6: after the initializer has run, whatever was returned or buffered
\* before, the batches get_next returns are taken from the start of the
\* epoch's stream, every record returned or buffered was read in this epoch,
\* and at end-of-epoch all full batches of the stream have been returned.
C6_RestartIsFresh ==
  epoch > 0 =>
    /\ \A i \in 1..Len(AllItems) : AllItems[i].ep = epoch
    /\ IsPrefix(EmittedRecs, stream)
    /\ result = "OutOfRange" =>
         EmittedRecs
           = SubSeq(stream, 1, batch_size * (Len(stream) \div batch_size))

\* the initializer ran in the middle of an epoch, after one batch of three
C6_Witness ==
  /\ epoch = 2
  /\ prev.valid
  /\ prev.result = "batch"
  /\ Len(prev.emitted) = 1
  /\ result = "OutOfRange"
  /\ Len(emitted) = 3

BoxesInUnitRange(t) ==
  \A i \in 1..Len(t.boxes) : \A j \in 1..Len(t.boxes[i]) : \A k \in 1..4 :
    0 <= t.boxes[i][j][k] /\ t.boxes[i][j][k] <= One

\* C7: every box coordinate of every batch lies between 0 and 1.
C7_BoxesInUnitRange ==
  \A b \in 1..Len(BatchesOut) : BoxesInUnitRange(BatchesOut[b].tensors)

\* a record with coordinates below 0 and above 1, cropped in training
C7_Witness ==
  /\ is_training
  /\ \E b \in 1..Len(emitted) : \E i \in 1..Len(emitted[b].items) :
       LET item == emitted[b].items[i]
       IN /\ item.draw > 0
          /\ \E n \in 1..Len(RecordOf(item).ymin) : RecordOf(item).ymin[n] < 0
          /\ \E n \in 1..Len(RecordOf(item).xmax) : RecordOf(item).xmax[n] > One

ImagesShapeAndRange(t) ==
  /\ Len(t.images) = batch_size
  /\ \A i \in 1..Len(t.images) :
       /\ Len(t.images[i]) = fine_size
       /\ \A r \in 1..Len(t.images[i]) :
            /\ Len(t.images[i][r]) = fine_size
            /\ \A c \in 1..Len(t.images[i][r]) :
                 /\ Len(t.images[i][r][c]) = 3
                 /\ \A k \in 1..3 :
                      /\ -PixOne <= t.images[i][r][c][k]
                      /\ t.images[i][r][c][k] <= PixOne

Fed == pulled \o Recs(calls) \o Recs(readahead)

\* C9: the records fed to the map and batch stages start at the first record
\* of a shard, continue through that shard in file order to its last record
\* and only then go on to the first record of a shard not yet read; without
\* shuffle the shards come in input order; no record is fed twice, and when
\* the batch stage reaches its end every record has been fed once.
C9_ShardLevelOrder ==
  epoch > 0 =>
    /\ Fed # <<>> => Fed[1][2] = 1
    /\ \A p \in 1..(Len(Fed) - 1) :
         \/ /\ Fed[p + 1][1] = Fed[p][1]
            /\ Fed[p + 1][2] = Fed[p][2] + 1
         \/ /\ Fed[p][2] = RecordCounts[Fed[p][1]]
            /\ Fed[p + 1][2] = 1
            /\ \A q \in 1..p : Fed[q][1] # Fed[p + 1][1]
    /\ \A p, q \in 1..Len(Fed) : Fed[p] = Fed[q] => p = q
    /\ ~shuffle => \A p, q \in 1..Len(Fed) : p < q => Fed[p][1] <= Fed[q][1]
    /\ ~shuffle /\ Fed # <<>> => Fed[1][1] = 1
    /\ batchDone => Len(pulled) = SumSeq(RecordCounts)

\* shards read in an order other than the input order
C9_Witness ==
  /\ shuffle
  /\ batchDone
  /\ Len(pulled) = 3
  /\ pulled[1][1] = 2
  /\ pulled[3] = <<1, 2>>

\* C10: the read-ahead buffer never holds more than 2 * batch_size records,
\* the buffer after batching never more than 1 batch, the map stage never
\* more than NUM_THREADS invocations; the records taken by the batch stage,
\* those in the map stage, those in the read-ahead buffer and those not yet
\* read make up the epoch's stream exactly (nothing lost, overwritten or
\* repeated); and, while no record has failed, the batches returned, the
\* buffered batch and the gathered group are exactly the records taken.
C10_BoundedBuffers ==
  /\ Len(readahead) <= 2 * batch_size
  /\ Len(batchbuf) <= 1
  /\ Len(calls) <= NUM_THREADS
  /\ Fed \o SubSeq(stream, cursor + 1, Len(stream)) = stream
  /\ (BadAt(pulled) = {} /\ ~batchDone) =>
       Flatten([i \in 1..Len(BatchesOut) |-> Recs(BatchesOut[i].items)]) \o Recs(group) = pulled

\* the read-ahead buffer full while a record is still unread: its producer waits
C10_Witness ==
  /\ Len(readahead) = 2 * batch_size
  /\ cursor < Len(stream)
  /\ ~ENABLED ReadAhead

====
